---- MODULE Spec2Model ----
(***************************************************************************)
(* A model of the rhythm game of main.py: the note list, the score tree,   *)
(* and the countdown / running / paused loop of game().                    *)
(*                                                                         *)
(* Time is counted in frame periods (1/60 s, the period clock.tick(60)     *)
(* enforces); beat timestamps are expressed in the same unit.  The clock   *)
(* now is pygame.time.get_ticks() read relative to countdown_start during  *)
(* the countdown and relative to start_time afterwards, so that elapsed    *)
(* (line 340) and t (line 391) are both the reading now.  Rendering        *)
(* (drawing, particles, feedback texts, lane flashes) is left out.         *)
(***************************************************************************)
EXTENDS Integers, Sequences, FiniteSets, TLC

(* ---------------- bounds of the model ---------------- *)
MaxBeats == 2
MaxBeatTime == 3
MaxDt == 1
MaxLane == 1
MaxFile == 1
MaxNodes == 3
\* clock readings are followed up to MaxT past the start of the music, which
\* is later than every beat timestamp
MaxT == MaxBeatTime + MaxDt + 1

(* ---------------- constants of the program ---------------- *)
HEIGHT == 800
FPS == 60
CountdownSeconds == 4
SpawnY == 0 - 50
fall_speed == 3
judgement_line == HEIGHT - 150
hit_window == 60
PerfectWindow == 20
PerfectScore == 300
GoodScore == 100
MissPenalty == 10
InitialHealth == 100
InitialClosest == 999
NumLanes == 4
NumSongs == 3

Max(a, b) == IF a >= b THEN a ELSE b
Min(a, b) == IF a <= b THEN a ELSE b
Abs(a) == IF a >= 0 THEN a ELSE 0 - a

\* the songs of the menu, numbered in the order of their names:
\* "song.mp3" < "song1.mp3" < "song2.mp3"
options == 1..NumSongs

\* keys: pygame.K_a, K_s, K_j, K_k are the lanes 0..3
Keys == {"K_ESCAPE", "K_q", "K_a", "K_s", "K_j", "K_k"}
keys == [k \in {"K_a", "K_s", "K_j", "K_k"} |->
           CASE k = "K_a" -> 0 [] k = "K_s" -> 1 [] k = "K_j" -> 2 [] k = "K_k" -> 3]

(***************************************************************************)
(* NoteLinkedList.  A list is [head, nodes]: head is a node identity or 0  *)
(* (None), nodes maps the identity of every node of the chain to its       *)
(* fields.  A node that was unlinked is garbage and is dropped from nodes. *)
(***************************************************************************)
NoNodes == [i \in {} |-> [y |-> 0, lane |-> 0, next |-> 0]]
EmptyList == [head |-> 0, nodes |-> NoNodes]

RECURSIVE LastFrom(_, _)
LastFrom(nodes, cur) ==
    IF nodes[cur].next = 0 THEN cur ELSE LastFrom(nodes, nodes[cur].next)

add(L, new, y, lane) ==
    LET nd == [y |-> y, lane |-> lane, next |-> 0]
        put == [i \in DOMAIN L.nodes \cup {new} |->
                  IF i = new THEN nd ELSE L.nodes[i]]
    IN IF L.head = 0
       THEN [head |-> new, nodes |-> put]
       ELSE [head |-> L.head,
             nodes |-> [put EXCEPT ![LastFrom(L.nodes, L.head)].next = new]]

RECURSIVE FindPrev(_, _, _)
FindPrev(nodes, cur, node) ==
    IF cur = 0 THEN 0
    ELSE IF nodes[cur].next = node THEN cur
    ELSE FindPrev(nodes, nodes[cur].next, node)

Drop(nodes, node) == [i \in DOMAIN nodes \ {node} |-> nodes[i]]

\* a remove that unlinks the head when it does not find the node
remove_HeadWhenAbsent(L, node) ==
    IF L.head = node \/ (L.head # 0 /\ FindPrev(L.nodes, L.head, node) = 0)
    THEN [head |-> L.nodes[L.head].next, nodes |-> Drop(L.nodes, L.head)]
    ELSE LET cur == FindPrev(L.nodes, L.head, node)
         IN IF cur # 0 /\ L.nodes[cur].next # 0
            THEN [head |-> L.head,
                  nodes |-> Drop([L.nodes EXCEPT ![cur].next = L.nodes[node].next], node)]
            ELSE L

remove(L, node) ==
    IF L.head = node
    THEN [head |-> L.nodes[node].next, nodes |-> Drop(L.nodes, node)]
    ELSE LET cur == FindPrev(L.nodes, L.head, node)
         IN IF cur # 0 /\ L.nodes[cur].next # 0
            THEN [head |-> L.head,
                  nodes |-> Drop([L.nodes EXCEPT ![cur].next = L.nodes[node].next], node)]
            ELSE L

RECURSIVE IterFrom(_, _)
IterFrom(nodes, cur) ==
    IF cur = 0 THEN <<>> ELSE <<cur>> \o IterFrom(nodes, nodes[cur].next)

Iter(L) == IterFrom(L.nodes, L.head)

(***************************************************************************)
(* ScoreBST.  A tree is a sequence of nodes [song, score, left, right];    *)
(* node 1 is the root, left and right are positions in the sequence or 0   *)
(* (None).  The empty sequence is the tree whose root is None.             *)
(***************************************************************************)
ScoreNode(song, sc) == [song |-> song, score |-> sc, left |-> 0, right |-> 0]

RECURSIVE _insert_recursive(_, _, _, _)
_insert_recursive(tree, node, song, sc) ==
    IF song < tree[node].song
    THEN IF tree[node].left = 0
         THEN Append([tree EXCEPT ![node].left = Len(tree) + 1], ScoreNode(song, sc))
         ELSE _insert_recursive(tree, tree[node].left, song, sc)
    ELSE IF song > tree[node].song
    THEN IF tree[node].right = 0
         THEN Append([tree EXCEPT ![node].right = Len(tree) + 1], ScoreNode(song, sc))
         ELSE _insert_recursive(tree, tree[node].right, song, sc)
    ELSE [tree EXCEPT ![node].score = Max(tree[node].score, sc)]

insert(tree, song, sc) ==
    IF tree = <<>> THEN <<ScoreNode(song, sc)>>
    ELSE _insert_recursive(tree, 1, song, sc)

RECURSIVE _search_recursive(_, _, _)
_search_recursive(tree, node, song) ==
    IF node = 0 THEN 0
    ELSE IF song = tree[node].song THEN tree[node].score
    ELSE IF song < tree[node].song THEN _search_recursive(tree, tree[node].left, song)
    ELSE _search_recursive(tree, tree[node].right, song)

search(tree, song) == _search_recursive(tree, IF tree = <<>> THEN 0 ELSE 1, song)

RECURSIVE _inorder_recursive(_, _)
_inorder_recursive(tree, node) ==
    IF node = 0 THEN <<>>
    ELSE _inorder_recursive(tree, tree[node].left)
         \o << <<tree[node].song, tree[node].score>> >>
         \o _inorder_recursive(tree, tree[node].right)

inorder_traversal(tree) == _inorder_recursive(tree, IF tree = <<>> THEN 0 ELSE 1)

\* scores.json is [ok, data]: ok is FALSE when the file is missing or
\* unreadable, data is the sequence of its (song, score) items
RECURSIVE InsertAll(_, _)
InsertAll(tree, items) ==
    IF items = <<>> THEN tree
    ELSE InsertAll(insert(tree, items[1][1], items[1][2]), Tail(items))

load_scores(file) ==
    IF file.ok THEN InsertAll(<<>>, file.data)
    ELSE insert(insert(insert(<<>>, 1, 0), 2, 0), 3, 0)

save_scores(tree) == [ok |-> TRUE, data |-> inorder_traversal(tree)]

(***************************************************************************)
(* The state of game() and of the module around it.                        *)
(***************************************************************************)
VARIABLES
    pc,            \* "countdown", "frame" (top of the main loop), "events"
                   \* (event loop of a running frame), "pevents" (event loop
                   \* of a paused frame), "done" (game() has returned)
    song_path, score_bst, scores_json,
    beat_times, beat_queue, notes, made,
    score, combo, max_combo, total_notes, perfect_hits, good_hits,
    missed_notes, health,
    paused, music,
    now,           \* the clock (see above)
    run_time,      \* the part of now - start_time spent in running frames
    result

vars == <<pc, song_path, score_bst, scores_json, beat_times, beat_queue,
          notes, made, score, combo, max_combo, total_notes, perfect_hits,
          good_hits, missed_notes, health, paused, music, now, run_time, result>>

scoreVars == <<score, combo, max_combo, total_notes, perfect_hits, good_hits,
               missed_notes, health>>
boardVars == <<song_path, score_bst, scores_json>>
clockVars == <<now, run_time>>

\* beat_times of load_beats: an increasing sequence of timestamps
SortedBeats ==
    {b \in UNION {[1..n -> 0..MaxBeatTime] : n \in 0..MaxBeats} :
        \A i \in 1..(Len(b) - 1) : b[i] < b[i + 1]}

Pending == [kind |-> "pending", score |-> 0, max_combo |-> 0, accuracy |-> <<0, 1>>,
            perfect |-> 0, good |-> 0, missed |-> 0]
None == [Pending EXCEPT !.kind = "None"]

\* the contents of scores.json the board is loaded from
Files ==
    {[ok |-> FALSE, data |-> <<>>]} \cup
    {[ok |-> TRUE, data |-> d] :
        d \in {e \in UNION {[1..n -> options \X {GoodScore, PerfectScore}] : n \in 0..MaxFile} :
                 \A i, j \in 1..Len(e) : i # j => e[i][1] # e[j][1]}}

\* lines 296-336: game() up to the countdown
GameStart ==
    /\ pc = "countdown"
    /\ beat_queue = beat_times
    /\ notes = EmptyList
    /\ made = 0
    /\ score = 0 /\ combo = 0 /\ max_combo = 0 /\ total_notes = 0
    /\ perfect_hits = 0 /\ good_hits = 0 /\ missed_notes = 0
    /\ health = InitialHealth
    /\ paused = FALSE
    /\ music = "loaded"
    /\ now = 0 /\ run_time = 0
    /\ result = Pending

\* a session on the first song with scores.json missing
Init ==
    /\ scores_json = [ok |-> FALSE, data |-> <<>>]
    /\ score_bst = load_scores(scores_json)
    /\ song_path = 1
    /\ beat_times \in SortedBeats
    /\ GameStart

(* ---------------- countdown ---------------- *)
\* a countdown that starts the music a second early
CountdownFrame_Early ==
    /\ pc = "countdown"
    /\ LET elapsed == now
       IN IF elapsed < (CountdownSeconds - 1) * FPS
          THEN /\ \E dt \in 1..MaxDt : now' = now + dt
               /\ UNCHANGED <<pc, music>>
          ELSE /\ pc' = "frame"
               /\ music' = "playing"
               /\ now' = 0
    /\ UNCHANGED <<boardVars, scoreVars, beat_times, beat_queue, notes, made,
                   paused, run_time, result>>

CountdownFrame ==
    /\ pc = "countdown"
    /\ LET elapsed == now
       IN IF elapsed < CountdownSeconds * FPS
          THEN /\ \E dt \in 1..MaxDt : now' = now + dt
               /\ UNCHANGED <<pc, music>>
          ELSE /\ pc' = "frame"
               /\ music' = "playing"
               /\ now' = 0
    /\ UNCHANGED <<boardVars, scoreVars, beat_times, beat_queue, notes, made,
                   paused, run_time, result>>

(* ---------------- one frame of the main loop ---------------- *)
\* the reading of the clock after clock.tick(60) let dt frame periods pass
ClockAfter(dt) == Min(now + dt, MaxT)

\* a sweep that takes the notes as soon as they are past the line
Missed_AtLine(y) == y > judgement_line

\* line 416: a note that fell past the hit window
Missed(y) == y > judgement_line + hit_window

\* a miss that leaves the combo standing
MissEffect_KeepCombo(s, note) ==
    [notes |-> remove(s.notes, note),
     combo |-> s.combo,
     health |-> Max(0, s.health - MissPenalty),
     missed_notes |-> s.missed_notes + 1]

\* a miss that costs no health
MissEffect_NoPenalty(s, note) ==
    [notes |-> remove(s.notes, note),
     combo |-> 0,
     health |-> s.health,
     missed_notes |-> s.missed_notes + 1]

\* a miss that is not counted
MissEffect_Uncounted(s, note) ==
    [notes |-> remove(s.notes, note),
     combo |-> 0,
     health |-> Max(0, s.health - MissPenalty),
     missed_notes |-> s.missed_notes]

\* lines 416-420: the effect of a miss
MissEffect(s, note) ==
    [notes |-> remove(s.notes, note),
     combo |-> 0,
     health |-> Max(0, s.health - MissPenalty),
     missed_notes |-> s.missed_notes + 1]

\* notes that do not fall
RECURSIVE UpdateNotes_Still(_, _)
UpdateNotes_Still(s, ids) ==
    IF ids = <<>> THEN s
    ELSE LET note == Head(ids)
         IN IF Missed(s.notes.nodes[note].y)
            THEN UpdateNotes_Still(MissEffect(s, note), Tail(ids))
            ELSE UpdateNotes_Still(s, Tail(ids))

\* lines 406-420 for the notes of the snapshot list(notes), in order;
\* s is [notes, combo, health, missed_notes]
RECURSIVE UpdateNotes(_, _)
UpdateNotes(s, ids) ==
    IF ids = <<>> THEN s
    ELSE LET note == Head(ids)
             moved == [s EXCEPT !.notes.nodes[note].y = @ + fall_speed]
         IN IF Missed(moved.notes.nodes[note].y)
            THEN UpdateNotes(MissEffect(moved, note), Tail(ids))
            ELSE UpdateNotes(moved, Tail(ids))

Frame ==
    /\ pc = "frame" /\ ~paused
    /\ \E dt \in 1..MaxDt :
         LET t == ClockAfter(dt)
             due == beat_queue # <<>> /\ t >= Head(beat_queue)
         IN /\ now' = t
            /\ run_time' = Min(run_time + dt, MaxT)
            /\ \E lane \in IF due THEN 0..MaxLane ELSE {0} :
                 LET spawned == IF due THEN add(notes, made + 1, SpawnY, lane) ELSE notes
                     s == UpdateNotes([notes |-> spawned, combo |-> combo,
                                       health |-> health,
                                       missed_notes |-> missed_notes], Iter(spawned))
                 IN /\ made' = IF due THEN made + 1 ELSE made
                    /\ total_notes' = IF due THEN total_notes + 1 ELSE total_notes
                    /\ beat_queue' = IF due THEN Tail(beat_queue) ELSE beat_queue
                    /\ notes' = s.notes
                    /\ combo' = s.combo
                    /\ health' = s.health
                    /\ missed_notes' = s.missed_notes
    /\ pc' = "events"
    /\ UNCHANGED <<boardVars, beat_times, score, max_combo, perfect_hits, good_hits,
                   paused, music, result>>

\* a search that does not record the distance of the note it keeps
RECURSIVE closest_note_KeepDist(_, _, _, _)
closest_note_KeepDist(L, ids, lane, best) ==
    IF ids = <<>> THEN best
    ELSE LET note == Head(ids)
             dist == Abs(L.nodes[note].y - judgement_line)
         IN IF L.nodes[note].lane = lane /\ dist < best.closest_dist
            THEN closest_note_KeepDist(L, Tail(ids), lane,
                                       [hit_note |-> note, closest_dist |-> best.closest_dist])
            ELSE closest_note_KeepDist(L, Tail(ids), lane, best)

\* a search that lets a later note of the same distance take over
RECURSIVE closest_note_LastWins(_, _, _, _)
closest_note_LastWins(L, ids, lane, best) ==
    IF ids = <<>> THEN best
    ELSE LET note == Head(ids)
             dist == Abs(L.nodes[note].y - judgement_line)
         IN IF L.nodes[note].lane = lane /\ dist <= best.closest_dist
            THEN closest_note_LastWins(L, Tail(ids), lane,
                                       [hit_note |-> note, closest_dist |-> dist])
            ELSE closest_note_LastWins(L, Tail(ids), lane, best)

\* lines 496-504: the linear search of the pressed lane
RECURSIVE closest_note(_, _, _, _)
closest_note(L, ids, lane, best) ==
    IF ids = <<>> THEN best
    ELSE LET note == Head(ids)
             dist == Abs(L.nodes[note].y - judgement_line)
         IN IF L.nodes[note].lane = lane /\ dist < best.closest_dist
            THEN closest_note(L, Tail(ids), lane, [hit_note |-> note, closest_dist |-> dist])
            ELSE closest_note(L, Tail(ids), lane, best)

Nearest(L, lane) ==
    closest_note(L, Iter(L), lane, [hit_note |-> 0, closest_dist |-> InitialClosest])

\* a perfect window that includes its bound
Tier_Inclusive(dist) == IF dist <= PerfectWindow THEN "Perfect" ELSE "Good"

\* lane keys judged whether paused or not
Judged_Always(key) == key \in DOMAIN keys

\* line 508
Tier(dist) == IF dist < PerfectWindow THEN "Perfect" ELSE "Good"

\* line 491: a lane key is judged
Judged(key) == key \in DOMAIN keys /\ ~paused

\* a hit that leaves max_combo as it was
press_StaleMaxCombo(lane) ==
    LET found == Nearest(notes, lane)
        old == [outcome |-> "none", notes |-> notes, score |-> score,
                combo |-> combo, max_combo |-> max_combo,
                perfect_hits |-> perfect_hits, good_hits |-> good_hits]
    IN IF found.hit_note # 0 /\ found.closest_dist < hit_window
       THEN LET tier == Tier(found.closest_dist)
            IN [outcome |-> tier,
                notes |-> remove(notes, found.hit_note),
                score |-> score + (IF tier = "Perfect" THEN PerfectScore ELSE GoodScore),
                combo |-> combo + 1,
                max_combo |-> max_combo,
                perfect_hits |-> perfect_hits + (IF tier = "Perfect" THEN 1 ELSE 0),
                good_hits |-> good_hits + (IF tier = "Perfect" THEN 0 ELSE 1)]
       ELSE old

\* lines 492-524: what a press of the lane makes of the notes and the score
press(lane) ==
    LET found == Nearest(notes, lane)
        old == [outcome |-> "none", notes |-> notes, score |-> score,
                combo |-> combo, max_combo |-> max_combo,
                perfect_hits |-> perfect_hits, good_hits |-> good_hits]
    IN IF found.hit_note # 0 /\ found.closest_dist < hit_window
       THEN LET tier == Tier(found.closest_dist)
            IN [outcome |-> tier,
                notes |-> remove(notes, found.hit_note),
                score |-> score + (IF tier = "Perfect" THEN PerfectScore ELSE GoodScore),
                combo |-> combo + 1,
                max_combo |-> Max(combo + 1, max_combo),
                perfect_hits |-> perfect_hits + (IF tier = "Perfect" THEN 1 ELSE 0),
                good_hits |-> good_hits + (IF tier = "Perfect" THEN 0 ELSE 1)]
       ELSE old

KeyDown(key) ==
    /\ pc = "events"
    /\ IF key = "K_ESCAPE"
       THEN /\ paused' = ~paused
            /\ music' = IF ~paused THEN "paused" ELSE "playing"
            /\ UNCHANGED <<notes, score, combo, max_combo, perfect_hits, good_hits>>
       ELSE IF Judged(key)
       THEN LET p == press(keys[key])
            IN /\ notes' = p.notes
               /\ score' = p.score
               /\ combo' = p.combo
               /\ max_combo' = p.max_combo
               /\ perfect_hits' = p.perfect_hits
               /\ good_hits' = p.good_hits
               /\ UNCHANGED <<paused, music>>
       ELSE UNCHANGED <<notes, score, combo, max_combo, perfect_hits, good_hits,
                        paused, music>>
    /\ UNCHANGED <<pc, boardVars, clockVars, beat_times, beat_queue, made,
                   total_notes, missed_notes, health, result>>

\* pygame.mixer.music.get_busy(): while playing it is True until the track
\* runs out; while paused it is True before pygame 2.0.1 and False from
\* 2.0.1 on; otherwise it is False
get_busy(m) ==
    IF m = "playing" \/ m = "paused" THEN {TRUE, FALSE} ELSE {FALSE}

\* an accuracy left as a fraction of 1
accuracy_Fraction(total_hits, total) ==
    IF total > 0 THEN <<total_hits, total>> ELSE <<0, 1>>

\* lines 537-539: the quotient total_hits / total_notes * 100 as the pair
\* <<numerator, denominator>>
accuracy(total_hits, total) ==
    IF total > 0 THEN <<total_hits * 100, total>> ELSE <<0, 1>>

Summary ==
    [kind |-> "summary", score |-> score, max_combo |-> max_combo,
     accuracy |-> accuracy(perfect_hits + good_hits, total_notes),
     perfect |-> perfect_hits, good |-> good_hits, missed |-> missed_notes]

\* a save that also writes a score equal to the best
SaveHighScore_OrEqual(board, song, sc) ==
    IF sc >= search(board.tree, song)
    THEN LET grown == insert(board.tree, song, sc)
         IN [tree |-> grown, file |-> save_scores(grown)]
    ELSE board

\* lines 542-544; the board is [tree, file]
SaveHighScore(board, song, sc) ==
    IF sc > search(board.tree, song)
    THEN LET grown == insert(board.tree, song, sc)
         IN [tree |-> grown, file |-> save_scores(grown)]
    ELSE board

\* lines 528-553: the end of a running frame and, when the loop is left,
\* the rest of game()
EndFrame ==
    /\ pc = "events"
    /\ LET music1 == IF health <= 0 THEN "stopped" ELSE music
       IN \E busy \in get_busy(music1) :
            LET running == ~(health <= 0) /\ busy
            IN IF running
               THEN /\ pc' = "frame"
                    /\ music' = music1
                    /\ UNCHANGED <<score_bst, scores_json, result>>
               ELSE /\ pc' = "done"
                    /\ music' = IF music1 = "playing" THEN "stopped" ELSE music1
                    /\ LET board == SaveHighScore([tree |-> score_bst, file |-> scores_json],
                                                  song_path, score)
                       IN score_bst' = board.tree /\ scores_json' = board.file
                    /\ result' = Summary
    /\ UNCHANGED <<song_path, scoreVars, clockVars, beat_times, beat_queue,
                   notes, made, paused>>

(* ---------------- a frame while paused (lines 368-389) ---------------- *)
PausedFrame ==
    /\ pc = "frame" /\ paused
    /\ \E dt \in 1..MaxDt : now' = ClockAfter(dt)
    /\ pc' = "pevents"
    /\ UNCHANGED <<boardVars, scoreVars, beat_times, beat_queue, notes, made,
                   paused, music, run_time, result>>

\* a quit that goes on to save the high score
PausedKeyDown_Saves(key) ==
    /\ pc = "pevents"
    /\ IF key = "K_ESCAPE"
       THEN /\ paused' = FALSE /\ music' = "playing"
            /\ UNCHANGED <<pc, result, score_bst, scores_json>>
       ELSE IF key = "K_q"
       THEN /\ music' = "stopped" /\ pc' = "done" /\ result' = None
            /\ LET board == SaveHighScore([tree |-> score_bst, file |-> scores_json],
                                          song_path, score)
               IN score_bst' = board.tree /\ scores_json' = board.file
            /\ UNCHANGED paused
       ELSE UNCHANGED <<paused, music, pc, result, score_bst, scores_json>>
    /\ UNCHANGED <<song_path, scoreVars, clockVars, beat_times, beat_queue,
                   notes, made>>

PausedKeyDown(key) ==
    /\ pc = "pevents"
    /\ IF key = "K_ESCAPE"
       THEN paused' = FALSE /\ music' = "playing" /\ UNCHANGED <<pc, result>>
       ELSE IF key = "K_q"
       THEN music' = "stopped" /\ pc' = "done" /\ result' = None /\ UNCHANGED paused
       ELSE UNCHANGED <<paused, music, pc, result>>
    /\ UNCHANGED <<boardVars, scoreVars, clockVars, beat_times, beat_queue, notes, made>>

PausedContinue ==
    /\ pc = "pevents"
    /\ pc' = "frame"
    /\ UNCHANGED <<boardVars, scoreVars, clockVars, beat_times, beat_queue, notes,
                   made, paused, music, result>>

Next ==
    \/ CountdownFrame
    \/ Frame
    \/ \E key \in Keys : KeyDown(key)
    \/ EndFrame
    \/ PausedFrame
    \/ \E key \in Keys : PausedKeyDown(key)
    \/ PausedContinue

Spec == Init /\ [][Next]_vars

(***************************************************************************)
(* The score board: a session on any song of the menu, with the board      *)
(* load_scores builds from any scores.json of at most MaxFile items.  The  *)
(* main loop (lines 559-566) calls game() again and again with the board   *)
(* the sessions before left; every such board is also the board of a file  *)
(* that lists the songs in the order they were first inserted.  The        *)
(* sessions are short ones.                                                *)
(***************************************************************************)
BoardBeats == {<<>>, <<0>>}

InitBoard ==
    /\ scores_json \in Files
    /\ score_bst = load_scores(scores_json)
    /\ song_path \in options
    /\ beat_times \in BoardBeats
    /\ GameStart

SpecBoard == InitBoard /\ [][Next]_vars

(***************************************************************************)
(* NoteLinkedList on its own: add and remove applied to any node.          *)
(***************************************************************************)
InitTrack ==
    /\ scores_json = [ok |-> FALSE, data |-> <<>>]
    /\ score_bst = load_scores(scores_json)
    /\ song_path = 1
    /\ beat_times = <<>>
    /\ GameStart

\* positions on both sides of the judgement line, at it, and at the spawn
TrackYs == {SpawnY, judgement_line - fall_speed, judgement_line,
            judgement_line + fall_speed}

TrackAdd ==
    /\ made < MaxNodes
    /\ \E y \in TrackYs, lane \in 0..MaxLane :
         notes' = add(notes, made + 1, y, lane)
    /\ made' = made + 1
    /\ UNCHANGED <<pc, boardVars, scoreVars, clockVars, beat_times, beat_queue,
                   paused, music, result>>

TrackRemove ==
    /\ \E node \in 1..(MaxNodes + 1) : notes' = remove(notes, node)
    /\ UNCHANGED <<pc, boardVars, scoreVars, clockVars, beat_times, beat_queue,
                   made, paused, music, result>>

NextTrack == TrackAdd \/ TrackRemove

SpecTrack == InitTrack /\ [][NextTrack]_vars

(***************************************************************************)
(* The session with the scheduling of its loop: a pass of the loop never   *)
(* blocks (clock.tick returns, pygame.event.get() hands over the finitely  *)
(* many events that are queued), so a pass that can start does start and a *)
(* pass whose events are read does reach its end, paused or not.  The      *)
(* player is not bound to anything: a paused session may stay paused.      *)
(* The sessions are those of a few beat lists of one and of two beats.     *)
(***************************************************************************)
LiveBeats == {<<0>>, <<0, 1>>, <<1, 3>>}

InitLive ==
    /\ scores_json = [ok |-> FALSE, data |-> <<>>]
    /\ score_bst = load_scores(scores_json)
    /\ song_path = 1
    /\ beat_times \in LiveBeats
    /\ GameStart

SpecLive ==
    /\ InitLive /\ [][Next]_vars
    /\ WF_vars(Frame) /\ WF_vars(EndFrame)
    /\ WF_vars(PausedFrame) /\ WF_vars(PausedContinue)

(***************************************************************************)
(* Properties.                                                             *)
(***************************************************************************)
InSession == pc \in {"frame", "events", "pevents"}
Members(L) == {Iter(L)[i] : i \in 1..Len(Iter(L))}
LaneNotes(lane) == {n \in DOMAIN notes.nodes : notes.nodes[n].lane = lane}
Dist(n) == Abs(notes.nodes[n].y - judgement_line)
\* node identities are handed out in spawn order
Earliest(S) == CHOOSE n \in S : \A m \in S : n <= m
Without(L, node) == SelectSeq(Iter(L), LAMBDA x : x # node)
NoneInWindow(lane) == \A n \in LaneNotes(lane) : Dist(n) >= 60
Hits == perfect_hits + good_hits
StoredBest(tree, song) ==
    IF \E i \in 1..Len(tree) : tree[i].song = song
    THEN tree[CHOOSE i \in 1..Len(tree) : tree[i].song = song].score
    ELSE 0

\* C1: paused time does not count toward simulation time: whenever a beat
\* is spawned, the simulation time t (now) used for it is the time accumulated
\* while running, so the beat's timestamp has elapsed in running time.
C1_PausedTimeNotCounted ==
    [][total_notes' > total_notes =>
          now' = run_time' /\ run_time' >= Head(beat_queue)]_vars

\* C2: pause neutrality: a step taken while the session is paused changes
\* no note, spawns and sweeps none, and leaves score, combo, max_combo,
\* health, the hit/miss counters and the beat cursor as they are.
C2_PauseNeutral ==
    [][InSession /\ paused =>
          UNCHANGED <<notes, made, total_notes, beat_queue, score, combo, max_combo,
                      health, perfect_hits, good_hits, missed_notes>>]_vars

C2_Witness ==
    /\ pc = "pevents" /\ paused
    /\ notes.head # 0
    /\ beat_queue # <<>> /\ now >= Head(beat_queue)

C5_BeatToSpawnFidelity ==
    (pc = "events" /\ \A i \in 1..Len(beat_times) : beat_times[i] <= now)
        => total_notes = Len(beat_times)

\* C6 (as claimed): when a lane holds several notes, the closest-note
\* lookup of that lane finds its earliest-spawned note.
C6_FifoPerLane ==
    \A lane \in 0..(NumLanes - 1) :
        Cardinality(LaneNotes(lane)) >= 2
            => Nearest(notes, lane).hit_note = Earliest(LaneNotes(lane))

\* C6 (amended): when a lane holds several notes and its earliest-spawned
\* note has not fallen below the judgement line, the closest-note lookup
\* of that lane finds the earliest-spawned note.
C6_FifoBeforeLine ==
    \A lane \in 0..(NumLanes - 1) :
        (/\ Cardinality(LaneNotes(lane)) >= 2
         /\ notes.nodes[Earliest(LaneNotes(lane))].y <= judgement_line)
            => Nearest(notes, lane).hit_note = Earliest(LaneNotes(lane))

C6_Witness ==
    /\ pc = "events" /\ ~paused
    /\ \E lane \in 0..(NumLanes - 1) :
          /\ Cardinality(LaneNotes(lane)) >= 2
          /\ notes.nodes[Earliest(LaneNotes(lane))].y <= judgement_line
          /\ Dist(Earliest(LaneNotes(lane))) < hit_window

\* C7: removal is idempotent: removing a node twice leaves the list that
\* removing it once leaves; removing a node that is not in the list, the
\* empty list included, changes nothing; removal takes out no other node
\* and keeps the order of the rest.
C7_IdempotentRemoval ==
    \A node \in 1..(MaxNodes + 1) :
        LET once == remove(notes, node)
        IN /\ remove(once, node) = once
           /\ node \notin Members(notes) => once = notes
           /\ Iter(once) = Without(notes, node)

C7_Witness ==
    /\ made >= 2
    /\ notes.head # 0
    /\ Len(Iter(notes)) < made
    /\ remove(notes, made) = notes

\* C8: a lane press while running, with d the distance of the nearest note
\* of the lane from the judgement line: d < 20 is Perfect (score +300,
\* perfect +1, combo +1), 20 <= d < 60 is Good (score +100, good +1,
\* combo +1), and in both cases exactly that note leaves the track; with
\* no note in the lane or d >= 60 no note leaves and score is unchanged.
C8_Judgement ==
    (pc = "events" /\ ~paused) =>
        \A k \in DOMAIN keys :
            LET lane == keys[k]
                p == press(lane)
            IN IF NoneInWindow(lane)
               THEN p.notes = notes /\ p.score = score
               ELSE LET n == CHOOSE n \in LaneNotes(lane) :
                                \A m \in LaneNotes(lane) : Dist(n) <= Dist(m)
                        d == Dist(n)
                    IN /\ d < 20 => /\ p.score = score + 300
                                     /\ p.perfect_hits = perfect_hits + 1
                                     /\ p.good_hits = good_hits
                       /\ d >= 20 => /\ p.score = score + 100
                                      /\ p.good_hits = good_hits + 1
                                      /\ p.perfect_hits = perfect_hits
                       /\ p.combo = combo + 1
                       /\ Iter(p.notes) = Without(notes, n)
                       /\ \A i \in Members(p.notes) :
                             /\ p.notes.nodes[i].y = notes.nodes[i].y
                             /\ p.notes.nodes[i].lane = notes.nodes[i].lane

C8_Witness ==
    /\ pc = "events"
    /\ perfect_hits = 1 /\ good_hits = 1
    /\ score = 400 /\ combo = 2

\* C9: quitting from the paused loop aborts the session: the result is
\* None and the score board and its file are left as they were, whatever
\* the score.
C9_QuitAborts ==
    [][(pc = "pevents" /\ pc' = "done") =>
          /\ result' = None
          /\ score_bst' = score_bst
          /\ scores_json' = scores_json]_vars

C9_Witness ==
    /\ pc = "done"
    /\ result = None
    /\ score > StoredBest(score_bst, song_path)

\* C10: a session that runs to its end makes its score the best of its song
\* exactly when it is strictly greater than the stored best (0 for a song
\* the board does not hold); over sessions and inserts no stored best
\* decreases and the bests of the other songs stay.
C10_BestScore ==
    /\ [][/\ score_bst' # score_bst =>
                \A s \in options : StoredBest(score_bst', s) >= StoredBest(score_bst, s)
          /\ (pc = "events" /\ pc' = "done") =>
                /\ \A s \in options :
                      StoredBest(score_bst', s) =
                         IF s = song_path /\ score > StoredBest(score_bst, s)
                         THEN score ELSE StoredBest(score_bst, s)
                /\ score <= StoredBest(score_bst, song_path) =>
                      UNCHANGED <<score_bst, scores_json>>
                /\ score > StoredBest(score_bst, song_path) =>
                      /\ scores_json'.ok
                      /\ \E i \in 1..Len(scores_json'.data) :
                            scores_json'.data[i] = <<song_path, score>>]_vars
    /\ [](pc \in {"countdown", "done"} =>
           \A s \in options, v \in {0, 100, 300}, o \in options :
            /\ search(score_bst, o) = StoredBest(score_bst, o)
            /\ StoredBest(insert(score_bst, s, v), o) =
                  IF o = s THEN Max(StoredBest(score_bst, s), v)
                  ELSE StoredBest(score_bst, o))

C10_Witness ==
    /\ pc = "done"
    /\ result.kind = "summary"
    /\ score = 100
    /\ StoredBest(score_bst, song_path) = 300
    /\ \E s \in options : s # song_path /\ StoredBest(score_bst, s) = 0

\* C11: the reported accuracy is (perfect + good) / total_notes * 100 when
\* at least one note was spawned and 0 when none was, so 6 perfect and 2
\* good of 10 notes give 80; it lies within 0..100 in every summary.
C11_Accuracy ==
    /\ accuracy(6 + 2, 10)[1] = 80 * accuracy(6 + 2, 10)[2]
    /\ (pc = "done" /\ result.kind = "summary") =>
          LET a == result.accuracy
          IN /\ a[2] > 0
             /\ 0 <= a[1] /\ a[1] <= 100 * a[2]
             /\ total_notes > 0 => a[1] * total_notes = Hits * 100 * a[2]
             /\ total_notes = 0 => a[1] = 0

C11_Witness ==
    /\ pc = "done" /\ result.kind = "summary"
    /\ total_notes = 2 /\ Hits = 1
    /\ result.accuracy[1] = 50 * result.accuracy[2]

\* C12: a running session ends only because health has reached 0, or
\* because the audio has played to its end with no beat left to spawn and
\* no note left in the track; and once health has reached 0 the session
\* ends in that same frame, so no further frame starts without health.
C12_EndOnlyWhenDone ==
    /\ [](pc = "frame" => health > 0)
    /\ [][(pc = "events" /\ pc' = "done") =>
            \/ health <= 0
            \/ /\ music = "playing" /\ music' = "stopped"
               /\ beat_queue = <<>>
               /\ notes.head = 0]_vars

\* C13: max_combo is a high-water mark of combo: it is never below combo,
\* it never decreases, every hit sets it to the larger of its old value
\* and the new combo, and no other step touches it.
C13_MaxComboHighWater ==
    /\ [](max_combo >= combo)
    /\ [][InSession =>
            /\ max_combo' >= max_combo
            /\ Hits' > Hits => max_combo' = Max(max_combo, combo')
            /\ Hits' = Hits => max_combo' = max_combo]_vars

C13_Witness ==
    /\ pc = "events"
    /\ Hits = 2 /\ combo = 2 /\ max_combo = 2

\* C14: a running frame drains every beat whose timestamp is at most the
\* frame's simulation time t and spawns one note for each of them, so that
\* after the frame no beat left in the queue has a timestamp <= t.
C14_DrainAllDueBeats ==
    [][(pc = "frame" /\ ~paused /\ pc' = "events") =>
          /\ total_notes' - total_notes =
                Cardinality({i \in DOMAIN beat_queue : beat_queue[i] <= now'})
          /\ \A i \in DOMAIN beat_queue' : beat_queue'[i] > now']_vars

\* C15: the sweep and the judgement agree within a frame: the sweep takes
\* exactly the notes whose position after the advance of this frame is
\* beyond judgement_line + hit_window, none of them within hit_window of
\* the line; it runs before the keys are handled, so when a key is judged
\* no note of the track is beyond the window and the note a press hits is
\* within it; and no step counts both a miss and a hit.
C15_SweepAgreesWithJudgement ==
    /\ [](pc = "events" =>
            /\ \A n \in Members(notes) :
                  notes.nodes[n].y <= judgement_line + hit_window
            /\ \A k \in DOMAIN keys :
                  LET p == press(keys[k])
                  IN p.outcome # "none" =>
                       \E n \in Members(notes) :
                          /\ Members(p.notes) = Members(notes) \ {n}
                          /\ Dist(n) < hit_window)
    /\ [][/\ (pc = "frame" /\ ~paused) =>
               \A n \in Members(notes) :
                  LET y == notes.nodes[n].y + fall_speed
                  IN /\ n \notin Members(notes') <=> y > judgement_line + hit_window
                     /\ n \notin Members(notes') => Abs(y - judgement_line) > hit_window
                     /\ n \in Members(notes') => notes'.nodes[n].y = y
          /\ pc = "events" => missed_notes' = missed_notes
          /\ ~(missed_notes' > missed_notes /\ Hits' > Hits)]_vars

C15_Witness ==
    /\ pc = "events" /\ ~paused
    /\ missed_notes = 1
    /\ \E n \in Members(notes) :
          /\ notes.nodes[n].y = judgement_line + hit_window - 1
          /\ press(notes.nodes[n].lane).outcome = "Good"

\* C16: pausing never ends the session: while the session is paused with
\* health left, the notes stay as they are and the session goes on, paused
\* or resumed, although the halted audio does not report playing; it ends
\* from the pause only through the quit key, which returns None.
C16_PauseNeverEnds ==
    [][(InSession /\ paused /\ health > 0 /\ music = "paused") =>
          /\ notes' = notes
          /\ pc' = "done" => (pc = "pevents" /\ result'.kind = "None")]_vars

\* C17: during the countdown no note is spawned, moved, swept or judged,
\* the beat queue and the score state keep their initial values and the
\* music has not started; the countdown is left only for the running
\* loop, only once 4 seconds have elapsed, and at that moment the music
\* starts and the simulation time is 0; the session is neither paused nor
\* ended from the countdown.
C17_Countdown ==
    /\ [](pc = "countdown" =>
            /\ notes = EmptyList /\ made = 0
            /\ beat_queue = beat_times
            /\ score = 0 /\ combo = 0 /\ max_combo = 0 /\ total_notes = 0
            /\ perfect_hits = 0 /\ good_hits = 0 /\ missed_notes = 0
            /\ health = 100
            /\ ~paused /\ music = "loaded" /\ result.kind = "pending")
    /\ [][pc = "countdown" =>
            /\ pc' \in {"countdown", "frame"}
            /\ ~paused'
            /\ pc' = "frame" =>
                  /\ now >= 4 * FPS
                  /\ music' = "playing"
                  /\ now' = 0 /\ run_time' = 0]_vars

C17_Witness ==
    /\ pc = "frame" /\ ~paused
    /\ music = "playing"
    /\ now = 0 /\ run_time = 0
    /\ beat_queue = beat_times /\ beat_queue # <<>>

\* the place of a note in the order of the list
Pos(L, n) == CHOOSE i \in 1..Len(Iter(L)) : Iter(L)[i] = n
\* the notes of the lane that are nearest to the judgement line
Least(lane) ==
    LET c == Members(notes) \cap LaneNotes(lane)
    IN {n \in c : \A m \in c : Dist(n) <= Dist(m)}

\* C18: when two or more notes of the pressed lane are at the same least
\* distance from the judgement line, the search selects the one that was
\* added first: the first of them in the order of the list, which is the
\* earliest spawned.
C18_TieBreak ==
    \A lane \in 0..MaxLane :
       Cardinality(Least(lane)) >= 2 =>
          LET hit == Nearest(notes, lane).hit_note
          IN /\ hit \in Least(lane)
             /\ \A m \in Least(lane) : Pos(notes, hit) <= Pos(notes, m)
             /\ hit = Earliest(Least(lane))

C18_Witness ==
    \E lane \in 0..MaxLane :
       \E n, m \in Least(lane) :
          /\ n < m
          /\ notes.nodes[n].y = judgement_line + fall_speed
          /\ notes.nodes[m].y = judgement_line - fall_speed
          /\ Nearest(notes, lane).hit_note = n
          /\ Members(notes) # Least(lane)

\* C19: note conservation: every spawned note is a perfect hit, a good
\* hit, a miss or still in the track, and every beat is spawned or still
\* in the queue: total_notes = perfect_hits + good_hits + missed_notes +
\* the length of the track, and total_notes + the length of beat_queue =
\* the length of beat_times; hence perfect_hits + good_hits <= total_notes.
C19_NoteConservation ==
    /\ total_notes = perfect_hits + good_hits + missed_notes + Len(Iter(notes))
    /\ total_notes + Len(beat_queue) = Len(beat_times)
    /\ perfect_hits + good_hits <= total_notes

C19_Witness ==
    /\ pc = "events"
    /\ Len(beat_times) = 2 /\ beat_queue = <<>>
    /\ perfect_hits + good_hits = 1
    /\ missed_notes = 0
    /\ Len(Iter(notes)) = 1

\* C20: bounded note lifetime: a note leaves the track only by a hit or a
\* fall-through miss; after the sweep of a frame no note of the track is
\* beyond judgement_line + hit_window; and every note of the track is
\* eventually removed, unless the session ends or stays paused for ever.
C20_BoundedNoteLifetime ==
    /\ [][/\ \A n \in Members(notes) :
               n \notin Members(notes') =>
                  \/ Hits' = Hits + 1 /\ missed_notes' = missed_notes
                  \/ missed_notes' > missed_notes /\ Hits' = Hits
          /\ (pc = "frame" /\ pc' = "events") =>
               \A n \in Members(notes') :
                  notes'.nodes[n].y - judgement_line <= hit_window]_vars
    /\ \A n \in 1..MaxBeats :
          (n \in Members(notes)) ~>
             (n \notin Members(notes) \/ pc = "done" \/ [](paused))

C20_Witness ==
    /\ pc = "events" /\ ~paused
    /\ missed_notes = 1 /\ perfect_hits + good_hits = 0
    /\ \E n \in Members(notes) : notes.nodes[n].y > judgement_line

====
